---- MODULE Spec2Model ----
(***************************************************************************)
(* Interactive threshold segmentation of DICOM3DViewer                     *)
(* (src/DICOM3DSegmentacion.py): the two slider-driven sessions            *)
(* (binary-band "threshold" and tri-band "multischeme"), their slider      *)
(* callbacks, the regeneration of the opacity / colour transfer functions  *)
(* and the region statistics, the Otsu and K-means segmentations of the    *)
(* menu (Spec), and the loading of a DICOM directory into a volume by the  *)
(* viewer and by the scripts 3DRango.py / 3Dpulmon.py (SpecLoad).          *)
(*                                                                         *)
(* Intensities are floats in the program.  Here they are fixed-point       *)
(* integers: the intensity 1.0 is Unit, and every threshold the model      *)
(* reaches is a multiple of Unit / 20, so that every product by a fraction *)
(* the code uses (0.1 .. 0.9, 0.25, 0.75, /2) is exact.  Opacities and     *)
(* colour channels are in tenths (0.7 is 7).                               *)
(***************************************************************************)
EXTENDS Integers, Sequences, FiniteSets, TLC

VARIABLES
    array,             \* self.array: the voxels of the loaded volume (Spec), its slices (SpecLoad)
    pc,                \* "load" | "read" | "menu" | the window that is open | "ended"
    lower_slider,      \* representation of self.lower_slider_widget
    upper_slider,      \* representation of self.upper_slider_widget
    opacity_transfer,  \* points added to self.opacity_transfer since it was cleared
    color_transfer,    \* points added to self.color_transfer since it was cleared
    handed,            \* arguments of the last _update_*_transfer call
    stats,             \* the boolean masks of the last statistics computation
    event,             \* the last slider event: which slider, and the raw value it was dragged to
    rendered,          \* what the last self.render_window.Render() of a session drew
    segmented,         \* segmented_array of the segmentation window that is open
    failure,           \* what the last segmentation or load call reported
    program,           \* the script that is run
    directory,         \* the files of the DICOM directory
    max_slices,        \* the max_slices argument (0: None)
    dicom_files,       \* the list of files the loader goes through
    index,             \* files of the list the loop has gone through
    slices,            \* the local list slices of the loader
    image,             \* self.image
    trace,             \* the files a read-failure line was printed for
    called,            \* the public method called on a viewer that has not loaded
    contour_values     \* the iso-values given to marching cubes by SetValue

loaderVars == <<program, directory, max_slices, dicom_files, index, slices,
                image, trace>>

sessionVars == <<lower_slider, upper_slider, opacity_transfer, color_transfer,
                 handed, stats, event, rendered, segmented>>

vars == <<array, pc, lower_slider, upper_slider, opacity_transfer,
          color_transfer, handed, stats, event, rendered, segmented, failure,
          program, directory, max_slices, dicom_files, index, slices, image,
          trace, called, contour_values>>

----------------------------------------------------------------------------
(* Bounds of the model *)

NumVoxels == 3
MaxHU == 2
MaxFiles == 3

(* Fixed-point scale of an intensity, and the grid of slider positions *)
Unit == 20 * 20
SliderStep == Unit \div 2

VoxelValues == {v * Unit : v \in 0..MaxHU}
Volumes == [1..NumVoxels -> VoxelValues]

(* A file of the directory: its extension, what reading it gives, and the *)
(* 2D dimensions of its pixel array (the number of pixels of a slice)     *)
Absent == [ext |-> "", status |-> "absent", shape |-> 0]

----------------------------------------------------------------------------
(* numpy helpers *)

NpMin(a) == CHOOSE x \in {a[i] : i \in DOMAIN a} : \A j \in DOMAIN a : x <= a[j]
NpMax(a) == CHOOSE x \in {a[i] : i \in DOMAIN a} : \A j \in DOMAIN a : x >= a[j]

(* np.percentile(a, p), linear interpolation between the closest ranks *)
NpPercentile(a, p) ==
    LET s == SortSeq(a, LAMBDA x, y : x < y)
        n == Len(s)
        pos == (n - 1) * p
        k == pos \div 100
        f == pos % 100
    IN  IF k + 2 <= n
        THEN s[k + 1] + ((s[k + 2] - s[k + 1]) * f) \div 100
        ELSE s[k + 1]

(* x * (pct / 100), e.g. span * 0.25 is Times(span, 25) *)
Times(x, pct) == (x * pct) \div 100

----------------------------------------------------------------------------
(* vtk objects, as far as the program drives them *)

NoEvent == [slider |-> "none", raw |-> 0]
NoStats == [mask |-> {}]
NoRender == [opacity |-> << >>, color |-> << >>, thresholds |-> <<0, 0>>,
             stats |-> NoStats]

(* self.render_window.Render(): the window draws the transfer functions as *)
(* they are at the call, under the title the update has just set           *)
Render ==
    rendered' = [opacity |-> opacity_transfer', color |-> color_transfer',
                 thresholds |-> handed', stats |-> stats']

(* vtk.vtkSliderRepresentation2D(): range [0.0, 1.0], value 0.0 *)
NewSlider == [minimum |-> 0, maximum |-> Unit, value |-> 0]

(* vtkSliderRepresentation.SetMinimumValue: a minimum at or above the     *)
(* maximum moves the maximum to minimum + 1; the value stays in the range *)
SetMinimumValue(s, v) ==
    IF v = s.minimum THEN s
    ELSE LET mx == IF v >= s.maximum THEN v + Unit ELSE s.maximum
         IN  [minimum |-> v, maximum |-> mx,
              value |-> IF s.value < v THEN v
                        ELSE IF s.value > mx THEN mx ELSE s.value]

(* vtkSliderRepresentation.SetMaximumValue: a maximum at or below the     *)
(* minimum moves the minimum to maximum - 1; the value stays in the range *)
SetMaximumValue(s, v) ==
    IF v = s.maximum THEN s
    ELSE LET mn == IF v <= s.minimum THEN v - Unit ELSE s.minimum
         IN  [minimum |-> mn, maximum |-> v,
              value |-> IF s.value < mn THEN mn
                        ELSE IF s.value > v THEN v ELSE s.value]

(* vtkSliderRepresentation.SetValue keeps the value inside [minimum, maximum] *)
SetValue(s, v) ==
    [s EXCEPT !.value = IF v < s.minimum THEN s.minimum
                        ELSE IF v > s.maximum THEN s.maximum ELSE v]

(* The positions a drag can leave a slider at: the widget moves the value *)
(* along the slider's own range and then fires InteractionEvent           *)
DragValues(s) ==
    {k * SliderStep :
        k \in (0 - ((0 - s.minimum) \div SliderStep))..(s.maximum \div SliderStep)}

(* RemoveAllPoints left out: the old points stay *)
RemoveAllPointsKept(f) == f

RemoveAllPoints(f) == << >>
AddPoint(f, x, y) == Append(f, <<x, y>>)
AddRGBPoint(f, x, r, g, b) == Append(f, <<x, r, g, b>>)

----------------------------------------------------------------------------
(* Binary-band session: volume_rendering_threshold_interactive *)

(* _create_threshold_sliders: one representation per slider *)
CreateThresholdSlider(a, initial) ==
    SetValue(SetMaximumValue(SetMinimumValue(NewSlider, NpMin(a)), NpMax(a)),
             initial)

(* _update_threshold_transfer: the opacity points, in the order added *)
ThresholdOpacity(f, lower_threshold, upper_threshold, data_min, data_max) ==
    LET mid_point == (lower_threshold + upper_threshold) \div 2
        f0 == RemoveAllPoints(f)
        f1 == AddPoint(f0, data_min, 0)
        f2 == AddPoint(f1, lower_threshold - Unit, 0)
        f3 == AddPoint(f2, lower_threshold, 7)
        f4 == AddPoint(f3, mid_point, 9)
        f5 == AddPoint(f4, upper_threshold, 7)
        f6 == AddPoint(f5, upper_threshold + Unit, 0)
    IN  AddPoint(f6, data_max, 0)

(* _update_threshold_transfer: the colour points, in the order added *)
ThresholdColor(f, lower_threshold, upper_threshold, data_min, data_max) ==
    LET mid_point == (lower_threshold + upper_threshold) \div 2
        span == upper_threshold - lower_threshold
        f0 == RemoveAllPoints(f)
        f1 == AddRGBPoint(f0, data_min, 0, 0, 0)
        f2 == AddRGBPoint(f1, lower_threshold - Unit, 0, 0, 0)
        f3 == AddRGBPoint(f2, lower_threshold, 0, 0, 10)
        f4 == AddRGBPoint(f3, lower_threshold + Times(span, 25), 0, 8, 10)
        f5 == AddRGBPoint(f4, mid_point, 0, 10, 0)
        f6 == AddRGBPoint(f5, lower_threshold + Times(span, 75), 10, 10, 0)
        f7 == AddRGBPoint(f6, upper_threshold, 10, 0, 0)
        f8 == AddRGBPoint(f7, upper_threshold + Unit, 0, 0, 0)
    IN  AddRGBPoint(f8, data_max, 0, 0, 0)

(* Both comparisons strict *)
ThresholdMaskExclusive(a, lower_threshold, upper_threshold) ==
    {i \in DOMAIN a : a[i] > lower_threshold /\ a[i] < upper_threshold}

(* mask = (self.array >= lower_threshold) & (self.array <= upper_threshold) *)
ThresholdMask(a, lower_threshold, upper_threshold) ==
    {i \in DOMAIN a : a[i] >= lower_threshold /\ a[i] <= upper_threshold}

UpdateThresholdTransfer(lower_threshold, upper_threshold) ==
    /\ opacity_transfer' = ThresholdOpacity(opacity_transfer, lower_threshold,
                               upper_threshold, NpMin(array), NpMax(array))
    /\ color_transfer' = ThresholdColor(color_transfer, lower_threshold,
                             upper_threshold, NpMin(array), NpMax(array))
    /\ stats' = [mask |-> ThresholdMask(array, lower_threshold, upper_threshold)]
    /\ handed' = <<lower_threshold, upper_threshold>>

(* The clamp left out *)
LowerThresholdValueUnclamped(value, upper_value) == value

(* The value _lower_threshold_callback keeps for a raw slider value *)
LowerThresholdValue(value, upper_value) ==
    IF value > upper_value THEN upper_value ELSE value

(* The comparison the wrong way round *)
UpperThresholdValueInverted(value, lower_value) ==
    IF value > lower_value THEN lower_value ELSE value

(* The value _upper_threshold_callback keeps for a raw slider value *)
UpperThresholdValue(value, lower_value) ==
    IF value < lower_value THEN lower_value ELSE value

(* The slider is not set back *)
LowerThresholdSliderNotSetBack(s, upper_value) == s

(* _lower_threshold_callback: the dragged slider is set back when it was clamped *)
LowerThresholdSlider(s, upper_value) ==
    IF s.value > upper_value THEN SetValue(s, upper_value) ELSE s

(* _upper_threshold_callback: the dragged slider is set back when it was clamped *)
UpperThresholdSlider(s, lower_value) ==
    IF s.value < lower_value THEN SetValue(s, lower_value) ELSE s

(* The binary-band session starts from the 25th percentile *)
ThresholdInitialLowerQuartile(a) == NpPercentile(a, 25)

(* initial_lower = np.percentile(self.array, 30) *)
ThresholdInitialLower(a) == NpPercentile(a, 30)

(* initial_upper = np.percentile(self.array, 90) *)
ThresholdInitialUpper(a) == NpPercentile(a, 90)

(* Menu choice 1 / 1: sliders and first transfer function, then Start() *)
StartThresholdInteractive ==
    /\ pc = "menu"
    /\ UNCHANGED <<loaderVars, called, contour_values>>
    /\ LET initial_lower == ThresholdInitialLower(array)
           initial_upper == ThresholdInitialUpper(array)
       IN  /\ lower_slider' = CreateThresholdSlider(array, initial_lower)
           /\ upper_slider' = CreateThresholdSlider(array, initial_upper)
           /\ UpdateThresholdTransfer(initial_lower, initial_upper)
    /\ Render
    /\ pc' = "threshold"
    /\ event' = NoEvent
    /\ failure' = "none"
    /\ UNCHANGED <<array, segmented>>

(* _lower_threshold_callback with Render() called before the update *)
LowerThresholdCallbackRenderFirst ==
    /\ pc = "threshold"
    /\ UNCHANGED <<loaderVars, called, contour_values>>
    /\ \E raw \in DragValues(lower_slider) :
         LET upper_value == upper_slider.value
             value == LowerThresholdValue(raw, upper_value)
             dragged == [lower_slider EXCEPT !.value = raw]
         IN  /\ lower_slider' = LowerThresholdSlider(dragged, upper_value)
             /\ event' = [slider |-> "lower", raw |-> raw]
             /\ UpdateThresholdTransfer(value, upper_value)
    /\ rendered' = [opacity |-> opacity_transfer, color |-> color_transfer,
                    thresholds |-> handed, stats |-> stats]
    /\ UNCHANGED <<array, pc, upper_slider, segmented, failure>>

(* A drag of the lower slider to raw, then _lower_threshold_callback *)
LowerThresholdCallback ==
    /\ pc = "threshold"
    /\ UNCHANGED <<loaderVars, called, contour_values>>
    /\ \E raw \in DragValues(lower_slider) :
         LET upper_value == upper_slider.value
             value == LowerThresholdValue(raw, upper_value)
             dragged == [lower_slider EXCEPT !.value = raw]
         IN  /\ lower_slider' = LowerThresholdSlider(dragged, upper_value)
             /\ event' = [slider |-> "lower", raw |-> raw]
             /\ UpdateThresholdTransfer(value, upper_value)
    /\ Render
    /\ UNCHANGED <<array, pc, upper_slider, segmented, failure>>

(* A drag of the upper slider to raw, then _upper_threshold_callback *)
UpperThresholdCallback ==
    /\ pc = "threshold"
    /\ UNCHANGED <<loaderVars, called, contour_values>>
    /\ \E raw \in DragValues(upper_slider) :
         LET lower_value == lower_slider.value
             value == UpperThresholdValue(raw, lower_value)
             dragged == [upper_slider EXCEPT !.value = raw]
         IN  /\ upper_slider' = UpperThresholdSlider(dragged, lower_value)
             /\ event' = [slider |-> "upper", raw |-> raw]
             /\ UpdateThresholdTransfer(lower_value, value)
    /\ Render
    /\ UNCHANGED <<array, pc, lower_slider, segmented, failure>>

----------------------------------------------------------------------------
(* Tri-band session: volume_rendering_multiple_schemes_interactive *)

(* _create_multischeme_sliders: one representation per slider *)
CreateMultischemeSlider(a, initial) ==
    SetValue(SetMaximumValue(SetMinimumValue(NewSlider, NpMin(a)), NpMax(a)),
             initial)

(* _update_multischeme_transfer: the opacity points, in the order added *)
MultischemeOpacity(f, lower_threshold, upper_threshold, data_min, data_max) ==
    LET mid_lower == lower_threshold + Times(upper_threshold - lower_threshold, 30)
        mid_upper == lower_threshold + Times(upper_threshold - lower_threshold, 70)
        f0 == RemoveAllPoints(f)
        f1 == AddPoint(f0, data_min, 1)
        f2 == AddPoint(f1, lower_threshold - Times(lower_threshold - data_min, 20), 2)
        f3 == AddPoint(f2, lower_threshold, 4)
        f4 == AddPoint(f3, mid_lower, 8)
        f5 == AddPoint(f4, mid_upper, 9)
        f6 == AddPoint(f5, upper_threshold, 7)
        f7 == AddPoint(f6, upper_threshold + Times(data_max - upper_threshold, 20), 5)
    IN  AddPoint(f7, data_max, 3)

(* _update_multischeme_transfer: the colour points, in the order added *)
MultischemeColor(f, lower_threshold, upper_threshold, data_min, data_max) ==
    LET below == lower_threshold - data_min
        span == upper_threshold - lower_threshold
        above == data_max - upper_threshold
        f0 == RemoveAllPoints(f)
        \* 1. cold scheme
        c1 == AddRGBPoint(f0, data_min, 0, 0, 3)
        c2 == AddRGBPoint(c1, data_min + Times(below, 30), 1, 1, 5)
        c3 == AddRGBPoint(c2, data_min + Times(below, 60), 2, 4, 8)
        c4 == AddRGBPoint(c3, lower_threshold, 4, 6, 10)
        \* 2. medical scheme
        m1 == AddRGBPoint(c4, lower_threshold + Times(span, 10), 7, 7, 7)
        m2 == AddRGBPoint(m1, lower_threshold + Times(span, 30), 9, 8, 6)
        m3 == AddRGBPoint(m2, lower_threshold + Times(span, 50), 10, 7, 4)
        m4 == AddRGBPoint(m3, lower_threshold + Times(span, 70), 10, 6, 2)
        m5 == AddRGBPoint(m4, upper_threshold, 10, 5, 1)
        \* 3. hot scheme
        h1 == AddRGBPoint(m5, upper_threshold + Times(above, 20), 10, 4, 0)
        h2 == AddRGBPoint(h1, upper_threshold + Times(above, 40), 10, 3, 0)
        h3 == AddRGBPoint(h2, upper_threshold + Times(above, 60), 10, 6, 2)
        h4 == AddRGBPoint(h3, upper_threshold + Times(above, 80), 10, 8, 4)
    IN  AddRGBPoint(h4, data_max, 10, 10, 8)

(* cold_region = (self.array < lower_threshold) *)
ColdRegion(a, lower_threshold) ==
    {i \in DOMAIN a : a[i] < lower_threshold}

(* medical_region = (self.array >= lower_threshold) & (self.array <= upper_threshold) *)
MedicalRegion(a, lower_threshold, upper_threshold) ==
    {i \in DOMAIN a : a[i] >= lower_threshold /\ a[i] <= upper_threshold}

(* >= instead of > *)
HotRegionInclusive(a, upper_threshold) ==
    {i \in DOMAIN a : a[i] >= upper_threshold}

(* hot_region = (self.array > upper_threshold) *)
HotRegion(a, upper_threshold) ==
    {i \in DOMAIN a : a[i] > upper_threshold}

UpdateMultischemeTransfer(lower_threshold, upper_threshold) ==
    /\ opacity_transfer' = MultischemeOpacity(opacity_transfer, lower_threshold,
                               upper_threshold, NpMin(array), NpMax(array))
    /\ color_transfer' = MultischemeColor(color_transfer, lower_threshold,
                             upper_threshold, NpMin(array), NpMax(array))
    /\ stats' = [cold |-> ColdRegion(array, lower_threshold),
                 medical |-> MedicalRegion(array, lower_threshold, upper_threshold),
                 hot |-> HotRegion(array, upper_threshold)]
    /\ handed' = <<lower_threshold, upper_threshold>>

(* The value _lower_multischeme_callback keeps for a raw slider value *)
LowerMultischemeValue(value, upper_value) ==
    IF value > upper_value THEN upper_value ELSE value

(* The value _upper_multischeme_callback keeps for a raw slider value *)
UpperMultischemeValue(value, lower_value) ==
    IF value < lower_value THEN lower_value ELSE value

(* _lower_multischeme_callback: the dragged slider is set back when it was clamped *)
LowerMultischemeSlider(s, upper_value) ==
    IF s.value > upper_value THEN SetValue(s, upper_value) ELSE s

(* _upper_multischeme_callback: the dragged slider is set back when it was clamped *)
UpperMultischemeSlider(s, lower_value) ==
    IF s.value < lower_value THEN SetValue(s, lower_value) ELSE s

(* initial_lower = np.percentile(self.array, 25) *)
MultischemeInitialLower(a) == NpPercentile(a, 25)

(* initial_upper = np.percentile(self.array, 75) *)
MultischemeInitialUpper(a) == NpPercentile(a, 75)

(* Menu choice 1 / 4: sliders and first transfer function, then Start() *)
StartMultischemeInteractive ==
    /\ pc = "menu"
    /\ UNCHANGED <<loaderVars, called, contour_values>>
    /\ LET initial_lower == MultischemeInitialLower(array)
           initial_upper == MultischemeInitialUpper(array)
       IN  /\ lower_slider' = CreateMultischemeSlider(array, initial_lower)
           /\ upper_slider' = CreateMultischemeSlider(array, initial_upper)
           /\ UpdateMultischemeTransfer(initial_lower, initial_upper)
    /\ Render
    /\ pc' = "multischeme"
    /\ event' = NoEvent
    /\ failure' = "none"
    /\ UNCHANGED <<array, segmented>>

(* A lower callback that pushes the upper slider up instead of clamping *)
LowerMultischemeCallbackPushesUpper ==
    /\ pc = "multischeme"
    /\ UNCHANGED <<loaderVars, called, contour_values>>
    /\ \E raw \in DragValues(lower_slider) :
         LET upper_value == IF raw > upper_slider.value THEN raw
                            ELSE upper_slider.value
         IN  /\ lower_slider' = [lower_slider EXCEPT !.value = raw]
             /\ upper_slider' = SetValue(upper_slider, upper_value)
             /\ event' = [slider |-> "lower", raw |-> raw]
             /\ UpdateMultischemeTransfer(raw, upper_value)
    /\ Render
    /\ UNCHANGED <<array, pc, segmented, failure>>

(* A drag of the lower slider to raw, then _lower_multischeme_callback *)
LowerMultischemeCallback ==
    /\ pc = "multischeme"
    /\ UNCHANGED <<loaderVars, called, contour_values>>
    /\ \E raw \in DragValues(lower_slider) :
         LET upper_value == upper_slider.value
             value == LowerMultischemeValue(raw, upper_value)
             dragged == [lower_slider EXCEPT !.value = raw]
         IN  /\ lower_slider' = LowerMultischemeSlider(dragged, upper_value)
             /\ event' = [slider |-> "lower", raw |-> raw]
             /\ UpdateMultischemeTransfer(value, upper_value)
    /\ Render
    /\ UNCHANGED <<array, pc, upper_slider, segmented, failure>>

(* A drag of the upper slider to raw, then _upper_multischeme_callback *)
UpperMultischemeCallback ==
    /\ pc = "multischeme"
    /\ UNCHANGED <<loaderVars, called, contour_values>>
    /\ \E raw \in DragValues(upper_slider) :
         LET lower_value == lower_slider.value
             value == UpperMultischemeValue(raw, lower_value)
             dragged == [upper_slider EXCEPT !.value = raw]
         IN  /\ upper_slider' = UpperMultischemeSlider(dragged, lower_value)
             /\ event' = [slider |-> "upper", raw |-> raw]
             /\ UpdateMultischemeTransfer(lower_value, value)
    /\ Render
    /\ UNCHANGED <<array, pc, lower_slider, segmented, failure>>

----------------------------------------------------------------------------
(* Automatic segmentations: segment_by_otsu and segment_by_kmeans          *)

(* np.where(mask, self.array, np.min(self.array)): a new array *)
NpWhere(mask, a) ==
    [i \in DOMAIN a |-> IF i \in mask THEN a[i] ELSE NpMin(a)]

(* mask = self.array > otsu_threshold *)
OtsuMask(a, otsu_threshold) == {i \in DOMAIN a : a[i] > otsu_threshold}

(* mask = (labels == brightest_cluster): the voxels of the cluster with   *)
(* the highest centre, those at or above the cluster's lowest member      *)
KMeansMask(a, lowest) == {i \in DOMAIN a : a[i] >= lowest}

(* What threshold_otsu can return for the volume: a value within its range *)
OtsuThresholds(a) == {t \in VoxelValues : NpMin(a) <= t /\ t <= NpMax(a)}

(* Where the brightest cluster can start; above the maximum it is empty   *)
KMeansCuts(a) == {a[i] : i \in DOMAIN a} \cup {NpMax(a) + Unit}

(* segmented_array > np.min(segmented_array) selects no voxel *)
NoForeground(seg) == \A i \in DOMAIN seg : seg[i] = NpMin(seg)

(* Menu 1/2 with the segmentation written into self.array *)
VolumeRenderingOtsuInPlace ==
    /\ pc = "menu"
    /\ UNCHANGED <<loaderVars, called, contour_values>>
    /\ \E skimage \in BOOLEAN :
          IF skimage
          THEN \E t \in OtsuThresholds(array) :
                  /\ segmented' = NpWhere(OtsuMask(array, t), array)
                  /\ array' = segmented'
                  /\ failure' = "none"
                  /\ pc' = "otsu"
          ELSE /\ failure' = "skimage_missing"
               /\ pc' = "ended"
               /\ UNCHANGED <<array, segmented>>
    /\ UNCHANGED <<lower_slider, upper_slider, opacity_transfer,
                   color_transfer, handed, stats, event, rendered>>

(* Menu 1/2: volume_rendering_otsu. The import of threshold_otsu stands   *)
(* before the try of segment_by_otsu: without scikit-image ImportError    *)
(* leaves segment_by_otsu, volume_rendering_otsu and the while loop of    *)
(* main, whose except clause prints it after the loop. Otherwise the      *)
(* segmented copy is rendered in a window of its own with local transfer  *)
(* functions.                                                             *)
VolumeRenderingOtsu ==
    /\ pc = "menu"
    /\ UNCHANGED <<loaderVars, called, contour_values>>
    /\ \E skimage \in BOOLEAN :
          IF skimage
          THEN \E t \in OtsuThresholds(array) :
                  /\ segmented' = NpWhere(OtsuMask(array, t), array)
                  /\ failure' = "none"
                  /\ pc' = "otsu"
          ELSE /\ failure' = "skimage_missing"
               /\ pc' = "ended"
               /\ UNCHANGED segmented
    /\ UNCHANGED <<array, lower_slider, upper_slider, opacity_transfer,
                   color_transfer, handed, stats, event, rendered>>

(* Menu 1/3: volume_rendering_kmeans. The import of KMeans and the fit    *)
(* are inside try/except Exception of segment_by_kmeans, which then       *)
(* returns None; volume_rendering_kmeans prints and returns to the menu,  *)
(* as it does when the segmented copy has no foreground.                  *)
VolumeRenderingKMeans ==
    /\ pc = "menu"
    /\ UNCHANGED <<loaderVars, called, contour_values>>
    /\ \E outcome \in {"sklearn_missing", "kmeans_error", "fitted"} :
          IF outcome = "fitted"
          THEN \E lowest \in KMeansCuts(array) :
                  LET seg == NpWhere(KMeansMask(array, lowest), array)
                  IN  IF NoForeground(seg)
                      THEN /\ failure' = "no_foreground"
                           /\ UNCHANGED <<pc, segmented>>
                      ELSE /\ segmented' = seg
                           /\ failure' = "none"
                           /\ pc' = "kmeans"
          ELSE /\ failure' = outcome
               /\ UNCHANGED <<pc, segmented>>
    /\ UNCHANGED <<array, lower_slider, upper_slider, opacity_transfer,
                   color_transfer, handed, stats, event, rendered>>

----------------------------------------------------------------------------
(* A quit that gives up the sliders of the session *)
QuitResetsSliders ==
    /\ pc \in {"threshold", "multischeme", "otsu", "kmeans"}
    /\ UNCHANGED <<loaderVars, called, contour_values>>
    /\ pc' = "menu"
    /\ segmented' = << >>
    /\ lower_slider' = NewSlider
    /\ upper_slider' = NewSlider
    /\ UNCHANGED <<array, opacity_transfer, color_transfer, handed, stats,
                   event, rendered, failure>>

(* The window is closed (key q): Start() returns, the local segmented     *)
(* copy is gone and main is back in its menu loop; the viewer keeps its   *)
(* attributes                                                             *)
Quit ==
    /\ pc \in {"threshold", "multischeme", "otsu", "kmeans"}
    /\ UNCHANGED <<loaderVars, called, contour_values>>
    /\ pc' = "menu"
    /\ segmented' = << >>
    /\ UNCHANGED <<array, lower_slider, upper_slider, opacity_transfer,
                   color_transfer, handed, stats, event, rendered, failure>>

(* Key r with the sliders put back to the session's initial percentiles *)
KeyRRestoresDefaults ==
    /\ pc \in {"threshold", "multischeme"}
    /\ UNCHANGED <<loaderVars, called, contour_values>>
    /\ event' = [slider |-> "key_r", raw |-> 0]
    /\ IF pc = "threshold"
       THEN /\ lower_slider' = SetValue(lower_slider, ThresholdInitialLower(array))
            /\ upper_slider' = SetValue(upper_slider, ThresholdInitialUpper(array))
            /\ UpdateThresholdTransfer(ThresholdInitialLower(array),
                                       ThresholdInitialUpper(array))
       ELSE /\ lower_slider' = SetValue(lower_slider, MultischemeInitialLower(array))
            /\ upper_slider' = SetValue(upper_slider, MultischemeInitialUpper(array))
            /\ UpdateMultischemeTransfer(MultischemeInitialLower(array),
                                         MultischemeInitialUpper(array))
    /\ Render
    /\ UNCHANGED <<array, pc, segmented, failure>>

(* Key r in a session window ("R: Reset de camara"): no observer of the   *)
(* program is registered for keys, the interactor resets the camera and   *)
(* renders again                                                          *)
KeyR ==
    /\ pc \in {"threshold", "multischeme"}
    /\ UNCHANGED <<loaderVars, called, contour_values>>
    /\ event' = [slider |-> "key_r", raw |-> 0]
    /\ UNCHANGED <<array, pc, lower_slider, upper_slider, opacity_transfer,
                   color_transfer, handed, stats, segmented, failure>>
    /\ Render

(* After load_dicom_series: a volume is loaded and main shows its menu *)
Init ==
    /\ array \in Volumes
    /\ pc = "menu"
    /\ lower_slider = NewSlider
    /\ upper_slider = NewSlider
    /\ opacity_transfer = << >>
    /\ color_transfer = << >>
    /\ handed = <<0, 0>>
    /\ stats = NoStats
    /\ event = NoEvent
    /\ rendered = NoRender
    /\ segmented = << >>
    /\ failure = "none"
    /\ program = "DICOM3DSegmentacion"
    /\ directory = [b \in 1..MaxFiles |-> Absent]
    /\ max_slices = 0
    /\ dicom_files = << >>
    /\ index = 0
    /\ slices = << >>
    /\ image = array
    /\ trace = << >>
    /\ called = "none"
    /\ contour_values = << >>

Next ==
    \/ StartThresholdInteractive
    \/ LowerThresholdCallback
    \/ UpperThresholdCallback
    \/ StartMultischemeInteractive
    \/ LowerMultischemeCallback
    \/ UpperMultischemeCallback
    \/ KeyR
    \/ VolumeRenderingOtsu
    \/ VolumeRenderingKMeans
    \/ Quit

Spec == Init /\ [][Next]_vars

----------------------------------------------------------------------------
(* Loading: find_dicom_files, load_dicom_series and _load_slices_manual   *)
(* of DICOM3DViewer, and the loading loop of visualizar_pulmones_3d       *)
(* (3DRango.py) and visualizar_pulmones_surface (3Dpulmon.py).            *)
(*                                                                        *)
(* The files of the directory are named 1..MaxFiles, in sorted order of   *)
(* their paths.  A file that can be read holds one slice, every pixel of  *)
(* which is the file's number times Unit: a known pattern by which a      *)
(* slice of the volume tells the file it came from.  The file system is   *)
(* case sensitive (main loads from /home/...).                            *)

None == << >>

Files ==
    {[ext |-> e, status |-> "ok", shape |-> n] : e \in {".dcm", ""}, n \in 1..2}
    \cup {[ext |-> e, status |-> st, shape |-> 0] :
             e \in {".dcm", ""}, st \in {"unreadable", "not_dicom"}}

Directories == [1..MaxFiles -> Files \cup {Absent}]

(* pydicom.dcmread(file_path, stop_before_pixels=True) does not raise *)
Dcmread(dir, b) == dir[b].status \in {"ok", "unreadable"}

(* itk.imread(file_path) does not raise *)
ItkImreadReads(dir, b) == dir[b].status = "ok"

(* itk.array_from_image(itk.imread(file_path)), without its unit axis *)
ItkImread(dir, b) == [k \in 1..dir[b].shape |-> b * Unit]

(* How many of the patterns '*.dcm', '*.DCM', '*.dic', '*.DIC',           *)
(* '*.dicom', '*.DICOM', '*' the file matches: the list is extended with  *)
(* the matches of each pattern in turn                                    *)
GlobMatches(dir, b) ==
    IF dir[b].status = "absent" THEN 0
    ELSE IF dir[b].ext = ".dcm" THEN 2
    ELSE 1

(* verified_dicom_files after its sort(), from file b on *)
RECURSIVE VerifiedDicomFiles(_, _)
VerifiedDicomFiles(dir, b) ==
    IF b > MaxFiles THEN << >>
    ELSE (IF Dcmread(dir, b)
          THEN [k \in 1..GlobMatches(dir, b) |-> b]
          ELSE << >>) \o VerifiedDicomFiles(dir, b + 1)

(* verified_dicom_files[:max_slices] if max_slices is given and smaller *)
LimitSlices(verified, max) ==
    IF max # 0 /\ max < Len(verified) THEN SubSeq(verified, 1, max)
    ELSE verified

(* The first file of the list is taken for study information *)
SkipsNoSlice(i) == FALSE

(* if i == 0: continue *)
SkipsStudySlice(i) == i = 0

(* An empty slices list that is stacked all the same *)
NoSlicesNeverEmpty(s) == FALSE

(* if not slices *)
NoSlices(s) == s = << >>

(* np.stack that takes slices of any shapes *)
NpStackAccepts(s) == FALSE

(* np.stack(slices, axis=0) raises ValueError: the arrays differ in shape *)
NpStackRaises(s) == \E j, k \in DOMAIN s : Len(s[j]) # Len(s[k])

(* load_dicom_series up to the call of _load_slices_manual *)
FindDicomFiles ==
    /\ pc = "load"
    /\ program = "DICOM3DSegmentacion"
    /\ LET verified == VerifiedDicomFiles(directory, 1)
       IN  IF verified = << >>
           THEN /\ failure' = "no_dicom_files"
                /\ pc' = "ended"
                /\ UNCHANGED dicom_files
           ELSE /\ dicom_files' = LimitSlices(verified, max_slices)
                /\ pc' = "read"
                /\ UNCHANGED failure
    /\ index' = 0
    /\ UNCHANGED <<array, program, directory, max_slices, slices, image,
                   trace, sessionVars, called,
                   contour_values>>

(* A loop that puts each slice in front of those read before *)
LoadSliceManualPrepends ==
    /\ pc = "read"
    /\ program = "DICOM3DSegmentacion"
    /\ index < Len(dicom_files)
    /\ LET file_path == dicom_files[index + 1]
       IN  IF SkipsStudySlice(index)
           THEN UNCHANGED <<slices, trace>>
           ELSE IF ItkImreadReads(directory, file_path)
           THEN /\ slices' = <<ItkImread(directory, file_path)>> \o slices
                /\ UNCHANGED trace
           ELSE /\ trace' = Append(trace, file_path)
                /\ UNCHANGED slices
    /\ index' = index + 1
    /\ UNCHANGED <<array, pc, failure, program, directory, max_slices,
                   dicom_files, image, sessionVars, called,
                   contour_values>>

(* One turn of the for loop of _load_slices_manual *)
LoadSliceManual ==
    /\ pc = "read"
    /\ program = "DICOM3DSegmentacion"
    /\ index < Len(dicom_files)
    /\ LET file_path == dicom_files[index + 1]
       IN  IF SkipsStudySlice(index)
           THEN UNCHANGED <<slices, trace>>
           ELSE IF ItkImreadReads(directory, file_path)
           THEN /\ slices' = Append(slices, ItkImread(directory, file_path))
                /\ UNCHANGED trace
           ELSE /\ trace' = Append(trace, file_path)
                /\ UNCHANGED slices
    /\ index' = index + 1
    /\ UNCHANGED <<array, pc, failure, program, directory, max_slices,
                   dicom_files, image, sessionVars, called,
                   contour_values>>

(* _load_slices_manual after its loop, and the return to main: a          *)
(* ValueError ends main in its except clause, otherwise the menu follows  *)
StackSlices ==
    /\ pc = "read"
    /\ program = "DICOM3DSegmentacion"
    /\ index = Len(dicom_files)
    /\ IF NoSlices(slices)
       THEN /\ failure' = "no_slices"
            /\ pc' = "ended"
            /\ UNCHANGED <<array, image>>
       ELSE IF NpStackRaises(slices)
       THEN /\ failure' = "shape_mismatch"
            /\ pc' = "ended"
            /\ UNCHANGED <<array, image>>
       ELSE /\ array' = slices
            /\ image' = array'
            /\ pc' = "menu"
            /\ UNCHANGED failure
    /\ UNCHANGED <<program, directory, max_slices, dicom_files, index, slices,
                   trace, sessionVars, called,
                   contour_values>>

(* archivos_dicom after its sort(), from file b on: the names that end    *)
(* with '.dcm'                                                            *)
RECURSIVE ArchivosDicom(_, _)
ArchivosDicom(dir, b) ==
    IF b > MaxFiles THEN << >>
    ELSE (IF dir[b].status # "absent" /\ dir[b].ext = ".dcm"
          THEN <<b>> ELSE << >>) \o ArchivosDicom(dir, b + 1)

(* archivos_dicom[::step] *)
EveryStep(archivos, step) ==
    [k \in 1..((Len(archivos) + step - 1) \div step) |->
        archivos[(k - 1) * step + 1]]

(* The files of the loop without archivos_dicom[:max_slices] *)
ArchivosUsadosUntruncated(archivos, max) ==
    IF Len(archivos) > max
    THEN EveryStep(archivos, Len(archivos) \div max)
    ELSE archivos

(* archivos_dicom[::len // max_slices] if there are more than max_slices, *)
(* and of that archivos_dicom[:max_slices]                                *)
ArchivosUsados(archivos, max) ==
    LET limited == IF Len(archivos) > max
                   THEN EveryStep(archivos, Len(archivos) \div max)
                   ELSE archivos
    IN  SubSeq(limited, 1, IF max < Len(limited) THEN max ELSE Len(limited))

(* visualizar_pulmones_3d / visualizar_pulmones_surface up to the loop *)
PulmonesListFiles ==
    /\ pc = "load"
    /\ program \in {"3DRango", "3Dpulmon"}
    /\ dicom_files' = ArchivosUsados(ArchivosDicom(directory, 1), max_slices)
    /\ pc' = "read"
    /\ index' = 0
    /\ UNCHANGED <<array, failure, program, directory, max_slices, slices,
                   image, trace, sessionVars, called,
                   contour_values>>

(* One turn of the loading loop: except Exception as e: continue *)
PulmonesReadSlice ==
    /\ pc = "read"
    /\ program \in {"3DRango", "3Dpulmon"}
    /\ index < Len(dicom_files)
    /\ LET archivo == dicom_files[index + 1]
       IN  IF ItkImreadReads(directory, archivo)
           THEN slices' = Append(slices, ItkImread(directory, archivo))
           ELSE UNCHANGED slices
    /\ index' = index + 1
    /\ UNCHANGED <<array, pc, failure, program, directory, max_slices,
                   dicom_files, image, trace, sessionVars, called,
                   contour_values>>

(* After the loop (the same in visualizar_volumen_optimizado):            *)
(* array_volumen = np.stack(slices, axis=0), kept here in array; its      *)
(* ValueError is caught by the except clause of the function              *)
PulmonesStack ==
    /\ pc = "read"
    /\ program \in {"3DRango", "3Dpulmon", "3DDICOM"}
    /\ index = Len(dicom_files)
    /\ IF NoSlices(slices)
       THEN /\ failure' = "no_slices"
            /\ pc' = "ended"
            /\ UNCHANGED array
       ELSE IF NpStackRaises(slices)
       THEN /\ failure' = "shape_mismatch"
            /\ pc' = "ended"
            /\ UNCHANGED array
       ELSE /\ array' = slices
            /\ pc' = "shown"
            /\ UNCHANGED failure
    /\ UNCHANGED <<program, directory, max_slices, dicom_files, index, slices,
                   image, trace, sessionVars, called,
                   contour_values>>

(* visualizar_volumen_optimizado (3DDICOM.py): the files are thinned out  *)
(* only if reducir_resolucion is set, and cut to max_slices in any case   *)
ArchivosOptimizado(archivos, max, reducir_resolucion) ==
    LET limited == IF Len(archivos) > max /\ reducir_resolucion
                   THEN EveryStep(archivos, Len(archivos) \div max)
                   ELSE archivos
    IN  SubSeq(limited, 1, IF max < Len(limited) THEN max ELSE Len(limited))

(* visualizar_volumen_optimizado up to its loop *)
OptimizadoListFiles ==
    /\ pc = "load"
    /\ program = "3DDICOM"
    /\ \E reducir_resolucion \in BOOLEAN :
          dicom_files' = ArchivosOptimizado(ArchivosDicom(directory, 1),
                                            max_slices, reducir_resolucion)
    /\ pc' = "read"
    /\ index' = 0
    /\ UNCHANGED <<array, failure, program, directory, max_slices, slices,
                   image, trace, sessionVars, called,
                   contour_values>>

(* One turn of its loop: a failed read prints "Error leyendo ...".  The   *)
(* slices of the model have fewer than 256 rows and are not thinned out.  *)
OptimizadoReadSlice ==
    /\ pc = "read"
    /\ program = "3DDICOM"
    /\ index < Len(dicom_files)
    /\ LET archivo == dicom_files[index + 1]
       IN  IF ItkImreadReads(directory, archivo)
           THEN /\ slices' = Append(slices, ItkImread(directory, archivo))
                /\ UNCHANGED trace
           ELSE /\ trace' = Append(trace, archivo)
                /\ UNCHANGED slices
    /\ index' = index + 1
    /\ UNCHANGED <<array, pc, failure, program, directory, max_slices,
                   dicom_files, image, sessionVars, called,
                   contour_values>>

(* visualizar_pulmones_normalizado (3Dslides.py, 3Dpulmon_torax.py):      *)
(* archivos[::len // max_slices] if there are more than max_slices        *)
ArchivosNormalizado(archivos, max) ==
    IF Len(archivos) > max
    THEN EveryStep(archivos, Len(archivos) \div max)
    ELSE archivos

(* visualizar_pulmones_normalizado up to its loop *)
NormalizadoListFiles ==
    /\ pc = "load"
    /\ program \in {"3Dslides", "3Dpulmon_torax"}
    /\ LET archivos == ArchivosDicom(directory, 1)
       IN  IF archivos = << >>
           THEN /\ failure' = "no_dicom_files"
                /\ pc' = "ended"
                /\ UNCHANGED dicom_files
           ELSE /\ dicom_files' = ArchivosNormalizado(archivos, max_slices)
                /\ pc' = "read"
                /\ UNCHANGED failure
    /\ index' = 0
    /\ UNCHANGED <<array, program, directory, max_slices, slices, image,
                   trace, sessionVars, called,
                   contour_values>>

(* One turn of its loop: the read is in no try of its own, a failure      *)
(* ends the function in its except clause                                 *)
NormalizadoReadSlice ==
    /\ pc = "read"
    /\ program \in {"3Dslides", "3Dpulmon_torax"}
    /\ index < Len(dicom_files)
    /\ LET archivo == dicom_files[index + 1]
       IN  IF ItkImreadReads(directory, archivo)
           THEN /\ slices' = Append(slices, ItkImread(directory, archivo))
                /\ index' = index + 1
                /\ UNCHANGED <<pc, failure>>
           ELSE /\ failure' = "read_error"
                /\ pc' = "ended"
                /\ UNCHANGED <<slices, index>>
    /\ UNCHANGED <<array, program, directory, max_slices, dicom_files, image,
                   trace, sessionVars, called,
                   contour_values>>

(* array_volumen = np.stack(slices, axis=0) after the loop *)
NormalizadoStack ==
    /\ pc = "read"
    /\ program \in {"3Dslides", "3Dpulmon_torax"}
    /\ index = Len(dicom_files)
    /\ IF NpStackRaises(slices)
       THEN /\ failure' = "shape_mismatch"
            /\ pc' = "ended"
            /\ UNCHANGED array
       ELSE /\ array' = slices
            /\ pc' = "shown"
            /\ UNCHANGED failure
    /\ UNCHANGED <<program, directory, max_slices, dicom_files, index, slices,
                   image, trace, sessionVars, called,
                   contour_values>>

(* The public rendering and segmentation methods of DICOM3DViewer *)
PublicMethods ==
    {"show_slice_preview", "volume_rendering_simple", "surface_rendering_simple",
     "volume_rendering_alternative_colors",
     "volume_rendering_threshold_interactive", "segment_by_otsu",
     "segment_by_kmeans", "volume_rendering_kmeans", "volume_rendering_otsu",
     "volume_rendering_gaussian",
     "volume_rendering_multiple_schemes_interactive",
     "surface_rendering_double_threshold"}

(* The methods that begin with                                            *)
(*   if self.array is None: raise ValueError("Primero debe cargar ...")   *)
ChecksArray ==
    {"show_slice_preview", "volume_rendering_simple", "surface_rendering_simple",
     "volume_rendering_alternative_colors",
     "volume_rendering_threshold_interactive", "segment_by_otsu",
     "segment_by_kmeans", "volume_rendering_multiple_schemes_interactive",
     "surface_rendering_double_threshold"}

(* The other methods begin with a call of self.<method>, outside any try; *)
(* the class defines no segment_by_gaussian                               *)
FirstCall ==
    [m \in PublicMethods \ ChecksArray |->
        CASE m = "volume_rendering_kmeans" -> "segment_by_kmeans"
          [] m = "volume_rendering_otsu" -> "segment_by_otsu"
          [] m = "volume_rendering_gaussian" -> "segment_by_gaussian"]

(* The exception a method raises while self.array is None *)
RaisedWhenUnloaded(m) ==
    IF m \in ChecksArray THEN "ValueError"
    ELSE IF FirstCall[m] \in ChecksArray THEN "ValueError"
    ELSE "AttributeError"

(* A public method is called on the viewer before load_dicom_series: the  *)
(* exception leaves the method before anything is created or assigned    *)
CallBeforeLoad ==
    /\ pc = "load"
    /\ program = "DICOM3DSegmentacion"
    /\ \E m \in PublicMethods :
          /\ called' = m
          /\ failure' = RaisedWhenUnloaded(m)
    /\ pc' = "raised"
    /\ UNCHANGED <<array, program, directory, max_slices, dicom_files, index,
                   slices, image, trace, sessionVars, contour_values>>

(* Before the load: the viewer is constructed, or the script is started *)
InitLoad ==
    /\ array = None
    /\ image = None
    /\ pc = "load"
    /\ failure = "none"
    /\ program \in {"DICOM3DSegmentacion", "3DRango", "3Dpulmon", "3DDICOM",
                    "3Dslides", "3Dpulmon_torax"}
    /\ directory \in Directories
    /\ max_slices \in IF program = "DICOM3DSegmentacion" THEN 0..2 ELSE 1..2
    /\ dicom_files = << >>
    /\ index = 0
    /\ slices = << >>
    /\ trace = << >>
    /\ called = "none"
    /\ contour_values = << >>
    /\ lower_slider = NewSlider
    /\ upper_slider = NewSlider
    /\ opacity_transfer = << >>
    /\ color_transfer = << >>
    /\ handed = <<0, 0>>
    /\ stats = NoStats
    /\ event = NoEvent
    /\ rendered = NoRender
    /\ segmented = << >>

NextLoad ==
    \/ FindDicomFiles
    \/ LoadSliceManual
    \/ StackSlices
    \/ PulmonesListFiles
    \/ PulmonesReadSlice
    \/ PulmonesStack
    \/ OptimizadoListFiles
    \/ OptimizadoReadSlice
    \/ NormalizadoListFiles
    \/ NormalizadoReadSlice
    \/ NormalizadoStack
    \/ CallBeforeLoad

SpecLoad == InitLoad /\ [][NextLoad]_vars

----------------------------------------------------------------------------
(* surface_rendering_double_threshold *)

(* The numbers a threshold is given as, by the caller or at the prompt *)
ThresholdInputs == {v * SliderStep : v \in 0..(2 * MaxHU)}

(* How a threshold comes in: as an argument, or, the argument being None, *)
(* typed at the prompt as a number or as a text float() rejects           *)
ThresholdSources == {"argument", "typed", "not_a_number"}

(* float(input(...)), and np.percentile(self.array, p) on ValueError *)
PromptedThreshold(a, from, value, p) ==
    IF from = "not_a_number" THEN NpPercentile(a, p) ELSE value

(* if lower_threshold >= upper_threshold: both are set to the percentiles *)
ValidatedThresholds(a, lower_threshold, upper_threshold) ==
    IF lower_threshold >= upper_threshold
    THEN <<NpPercentile(a, 40), NpPercentile(a, 80)>>
    ELSE <<lower_threshold, upper_threshold>>

(* np.linspace(lower_threshold, upper_threshold, num_contours), *)
(* num_contours = 3                                             *)
NpLinspace(start, stop) ==
    <<start, start + (stop - start) \div 2, stop>>

(* Menu option 2, or a call with arguments: the thresholds are taken,    *)
(* validated and given to marching cubes, and the window is shown        *)
SurfaceRenderingDoubleThreshold ==
    /\ pc = "menu"
    /\ \E lower_from, upper_from \in ThresholdSources :
       \E lower_value, upper_value \in ThresholdInputs :
          LET lower_threshold ==
                  PromptedThreshold(array, lower_from, lower_value, 40)
              upper_threshold ==
                  PromptedThreshold(array, upper_from, upper_value, 80)
              used == ValidatedThresholds(array, lower_threshold,
                                          upper_threshold)
          IN  contour_values' = NpLinspace(used[1], used[2])
    /\ pc' = "surface"
    /\ UNCHANGED <<array, failure, sessionVars, loaderVars, called>>

(* The surface window is closed: Start() returns and main is back in its *)
(* menu loop                                                             *)
SurfaceWindowClosed ==
    /\ pc = "surface"
    /\ pc' = "menu"
    /\ contour_values' = << >>
    /\ UNCHANGED <<array, failure, sessionVars, loaderVars, called>>

NextSurface ==
    \/ SurfaceRenderingDoubleThreshold
    \/ SurfaceWindowClosed

SpecSurface == Init /\ [][NextSurface]_vars

----------------------------------------------------------------------------
(* Properties *)

Interactive == pc \in {"threshold", "multischeme"}

DataMin == NpMin(array)
DataMax == NpMax(array)

(* C1: in both interactive modes, after any sequence of lower- and        *)
(* upper-slider drags from the initial thresholds, the pair handed to the *)
(* transfer-function regeneration satisfies lower <= upper.               *)
C1_LowerAtMostUpper ==
    Interactive => handed[1] <= handed[2]

C1_Witness ==
    /\ pc = "multischeme"
    /\ event.slider = "upper"
    /\ event.raw < lower_slider.value
    /\ handed[1] = handed[2]

(* C2: a lower slider dragged above the upper slider's value is applied   *)
(* as exactly the upper value; an upper slider dragged below the lower    *)
(* slider's value is applied as exactly the lower value.                  *)
C2_ClampToOther ==
    Interactive =>
        /\ (event.slider = "lower" /\ event.raw > upper_slider.value)
              => handed = <<upper_slider.value, upper_slider.value>>
        /\ (event.slider = "upper" /\ event.raw < lower_slider.value)
              => handed = <<lower_slider.value, lower_slider.value>>

C2_Witness ==
    /\ pc = "threshold"
    /\ event.slider = "lower"
    /\ event.raw = upper_slider.value + SliderStep
    /\ handed[1] = upper_slider.value

(* C3: after any sequence of slider events both thresholds applied to the *)
(* transfer function and the statistics lie within [volume.min,           *)
(* volume.max] of the loaded volume.                                      *)
C3_ThresholdsInVolumeRange ==
    Interactive =>
        /\ DataMin <= handed[1] /\ handed[1] <= DataMax
        /\ DataMin <= handed[2] /\ handed[2] <= DataMax

(* C4: when a callback returns, the displayed value of each slider equals *)
(* the threshold applied for it: a clamped slider shows the clamped       *)
(* value, an unclamped one still shows the raw value it was dragged to.   *)
C4_DisplayIsApplied ==
    Interactive =>
        /\ lower_slider.value = handed[1]
        /\ upper_slider.value = handed[2]
        /\ (event.slider = "lower" /\ event.raw <= upper_slider.value)
              => lower_slider.value = event.raw
        /\ (event.slider = "upper" /\ event.raw >= lower_slider.value)
              => upper_slider.value = event.raw

C4_Witness ==
    /\ pc = "threshold"
    /\ event.slider = "lower"
    /\ event.raw > upper_slider.value
    /\ lower_slider.value # event.raw
    /\ lower_slider.value = handed[1]

(* C5: for lower <= upper the three region counts of the tri-band update  *)
(* (voxels < lower, in [lower, upper], > upper) are pairwise disjoint and *)
(* sum exactly to the total voxel count.                                  *)
C5_RegionsPartition ==
    (pc = "multischeme" /\ handed[1] <= handed[2]) =>
        /\ stats.cold \cap stats.medical = {}
        /\ stats.medical \cap stats.hot = {}
        /\ stats.cold \cap stats.hot = {}
        /\ Cardinality(stats.cold) + Cardinality(stats.medical)
              + Cardinality(stats.hot) = Len(array)

C5_Witness ==
    /\ pc = "multischeme"
    /\ event.slider # "none"
    /\ stats.cold # {} /\ stats.medical # {} /\ stats.hot # {}

(* C6: a voxel is counted as between / visible exactly when               *)
(* lower <= value <= upper: voxels equal to lower or to upper are in the  *)
(* visible (binary-band) or medical (tri-band) count, never below / above.*)
C6_BetweenInclusive ==
    /\ pc = "threshold" =>
          \A i \in DOMAIN array :
              i \in stats.mask <=>
                  ~(array[i] < handed[1] \/ array[i] > handed[2])
    /\ pc = "multischeme" =>
          \A i \in DOMAIN array :
              /\ i \in stats.medical <=>
                    ~(array[i] < handed[1] \/ array[i] > handed[2])
              /\ (handed[1] <= handed[2] /\ array[i] \in {handed[1], handed[2]})
                    => i \notin stats.cold \cup stats.hot

C6_Witness ==
    /\ pc = "threshold"
    /\ handed[1] < handed[2]
    /\ \E i, j \in DOMAIN array :
          /\ array[i] = handed[1] /\ i \in stats.mask
          /\ array[j] = handed[2] /\ j \in stats.mask

(* The intensities of a point sequence grow strictly, in the order added *)
StrictlyIncreasing(f) ==
    \A i \in 1..(Len(f) - 1) : f[i][1] < f[i + 1][1]

ValidPair ==
    /\ DataMin <= handed[1]
    /\ handed[1] <= handed[2]
    /\ handed[2] <= DataMax

(* C7: for every pair with volume.min <= lower <= upper <= volume.max the *)
(* opacity points and the colour points emitted by the binary-band and by *)
(* the tri-band update have strictly increasing intensities.  Stated for  *)
(* volumes that have a range to threshold over (volume.min < volume.max). *)
C7_PointsStrictlyIncreasing ==
    (Interactive /\ DataMin < DataMax /\ ValidPair) =>
        /\ StrictlyIncreasing(opacity_transfer)
        /\ StrictlyIncreasing(color_transfer)

(* The opacities the emitted points give the intensity x *)
OpacitiesAt(x) ==
    {opacity_transfer[i][2] :
        i \in {j \in DOMAIN opacity_transfer : opacity_transfer[j][1] = x}}

(* C8: binary-band scheme with lower < upper: opacity 0 at every control  *)
(* point at or below lower-1 and at or above upper+1, volume.min and      *)
(* volume.max included; 0.7 at lower, 0.9 at (lower+upper)/2, 0.7 at      *)
(* upper.                                                                 *)
C8_BinaryBandOpacity ==
    (pc = "threshold" /\ ValidPair /\ handed[1] < handed[2]) =>
        /\ \A i \in DOMAIN opacity_transfer :
              (\/ opacity_transfer[i][1] <= handed[1] - Unit
               \/ opacity_transfer[i][1] >= handed[2] + Unit)
                  => opacity_transfer[i][2] = 0
        /\ OpacitiesAt(DataMin) = {0}
        /\ OpacitiesAt(DataMax) = {0}
        /\ OpacitiesAt(handed[1]) = {7}
        /\ OpacitiesAt((handed[1] + handed[2]) \div 2) = {9}
        /\ OpacitiesAt(handed[2]) = {7}

(* C9: with lower = upper both schemes emit a strictly increasing point   *)
(* sequence in which the band is a single point carrying the band's peak  *)
(* opacity (0.9 in the binary-band scheme).  Stated for volumes with      *)
(* volume.min < volume.max.                                               *)
C9_DegenerateBandCollapsed ==
    (Interactive /\ DataMin < DataMax /\ ValidPair /\ handed[1] = handed[2]) =>
        /\ StrictlyIncreasing(opacity_transfer)
        /\ StrictlyIncreasing(color_transfer)
        /\ Cardinality({i \in DOMAIN opacity_transfer :
                           opacity_transfer[i][1] = handed[1]}) = 1
        /\ Cardinality({i \in DOMAIN color_transfer :
                           color_transfer[i][1] = handed[1]}) = 1
        /\ OpacitiesAt(handed[1]) = {9}

(* The transfer functions generated from scratch for a threshold pair *)
FreshOpacity(lower, upper) ==
    IF pc = "threshold"
    THEN ThresholdOpacity(<< >>, lower, upper, DataMin, DataMax)
    ELSE MultischemeOpacity(<< >>, lower, upper, DataMin, DataMax)

FreshColor(lower, upper) ==
    IF pc = "threshold"
    THEN ThresholdColor(<< >>, lower, upper, DataMin, DataMax)
    ELSE MultischemeColor(<< >>, lower, upper, DataMin, DataMax)

C10_HistoryIndependent ==
    Interactive =>
        /\ opacity_transfer = FreshOpacity(lower_slider.value, upper_slider.value)
        /\ color_transfer = FreshColor(lower_slider.value, upper_slider.value)

C10_SameThresholdsSameTransfer ==
    (pc' = pc /\ Interactive /\ handed' = handed) =>
        /\ opacity_transfer' = opacity_transfer
        /\ color_transfer' = color_transfer

(* C10: regeneration is history-independent and idempotent: after any     *)
(* sequence of slider events the opacity and colour points are exactly    *)
(* those generated from scratch for the current (lower, upper,            *)
(* volume.min, volume.max), and an event that applies the thresholds      *)
(* already applied leaves both transfer functions identical.              *)
C10_RegenerationFromScratch ==
    /\ []C10_HistoryIndependent
    /\ [][C10_SameThresholdsSameTransfer]_vars

C10_Witness ==
    /\ pc = "multischeme"
    /\ event.slider = "lower"
    /\ event.raw < upper_slider.value
    /\ handed[1] # NpPercentile(array, 25)
    /\ Len(opacity_transfer) = 8
    /\ Len(color_transfer) = 14

(* C11: the binary-band session starts with lower = 30th and upper = 90th *)
(* percentile of the volume, the tri-band session with the 25th and the   *)
(* 75th, and the sliders and the first transfer function are created from *)
(* that same pair.                                                        *)
C11_InitialPercentiles ==
    /\ (pc = "threshold" /\ event = NoEvent) =>
          LET lo == NpPercentile(array, 30)
              hi == NpPercentile(array, 90)
          IN  /\ handed = <<lo, hi>>
              /\ lower_slider.value = lo
              /\ upper_slider.value = hi
              /\ opacity_transfer = ThresholdOpacity(<< >>, lo, hi, DataMin, DataMax)
              /\ color_transfer = ThresholdColor(<< >>, lo, hi, DataMin, DataMax)
    /\ (pc = "multischeme" /\ event = NoEvent) =>
          LET lo == NpPercentile(array, 25)
              hi == NpPercentile(array, 75)
          IN  /\ handed = <<lo, hi>>
              /\ lower_slider.value = lo
              /\ upper_slider.value = hi
              /\ opacity_transfer = MultischemeOpacity(<< >>, lo, hi, DataMin, DataMax)
              /\ color_transfer = MultischemeColor(<< >>, lo, hi, DataMin, DataMax)

C11_Witness ==
    /\ pc = "threshold"
    /\ event = NoEvent
    /\ handed[1] < handed[2]
    /\ handed[1] # NpPercentile(array, 25)
    /\ lower_slider.value = handed[1]

(* C12: on a volume whose voxels all have the same value no interactive   *)
(* threshold session is started: no sliders, no transfer function.        *)
C12_DegenerateVolumeRejected ==
    (DataMin = DataMax) => ~Interactive

(* C20: every slider event is handled to completion in the order clamp,  *)
(* transfer-function regeneration, statistics, redraw request: what the   *)
(* redraw shows (transfer functions, thresholds and statistics of the     *)
(* title) was all derived from the one pair (lower, upper) the sliders    *)
(* display when the callback returns.                                     *)
C20_RedrawConsistent ==
    Interactive =>
        /\ rendered.thresholds = <<lower_slider.value, upper_slider.value>>
        /\ rendered.opacity =
              FreshOpacity(rendered.thresholds[1], rendered.thresholds[2])
        /\ rendered.color =
              FreshColor(rendered.thresholds[1], rendered.thresholds[2])
        /\ pc = "threshold" =>
              rendered.stats.mask =
                  {i \in DOMAIN array : /\ rendered.thresholds[1] <= array[i]
                                        /\ array[i] <= rendered.thresholds[2]}
        /\ pc = "multischeme" =>
              /\ rendered.stats.cold =
                    {i \in DOMAIN array : array[i] < rendered.thresholds[1]}
              /\ rendered.stats.medical =
                    {i \in DOMAIN array : /\ rendered.thresholds[1] <= array[i]
                                          /\ array[i] <= rendered.thresholds[2]}
              /\ rendered.stats.hot =
                    {i \in DOMAIN array : array[i] > rendered.thresholds[2]}

C20_Witness ==
    /\ pc = "threshold"
    /\ event.slider = "upper"
    /\ rendered.thresholds = handed
    /\ rendered.thresholds[2] = event.raw
    /\ rendered.thresholds[2] # NpPercentile(array, 90)
    /\ rendered.stats.mask # {}

(* The percentile defaults of the running session *)
DefaultPair ==
    IF pc = "threshold"
    THEN <<NpPercentile(array, 30), NpPercentile(array, 90)>>
    ELSE <<NpPercentile(array, 25), NpPercentile(array, 75)>>

(* C19, as claimed: the reset action restores both sliders and both       *)
(* thresholds to the scheme's percentile defaults (30/90 binary-band,     *)
(* 25/75 tri-band) of the loaded volume, from any reachable state of the  *)
(* session.                                                               *)
C19_ResetRestoresDefaults ==
    (Interactive /\ event.slider = "key_r") =>
        /\ lower_slider.value = DefaultPair[1]
        /\ upper_slider.value = DefaultPair[2]
        /\ handed = DefaultPair

(* C19, amended: the reset the sessions offer (key r) leaves both         *)
(* sliders, both thresholds, the transfer functions and the statistics    *)
(* exactly as they were; it restores no percentile default.               *)
C19_ResetKeepsThresholds ==
    [][(event'.slider = "key_r" /\ event.slider # "key_r") =>
          UNCHANGED <<lower_slider, upper_slider, handed, opacity_transfer,
                      color_transfer, stats>>]_vars

C19_Witness ==
    /\ Interactive
    /\ event.slider = "key_r"
    /\ lower_slider.value # DefaultPair[1]
    /\ upper_slider.value # DefaultPair[2]
    /\ handed = <<lower_slider.value, upper_slider.value>>

(* C17, as claimed: when a segmentation cannot run (K-means fails, or     *)
(* scikit-learn / scikit-image cannot be imported) the call returns       *)
(* without a window and main is still in its menu loop, where the         *)
(* interactive threshold option can be selected.                          *)
C17_SegmentationFailureNonFatal ==
    failure \in {"skimage_missing", "sklearn_missing", "kmeans_error"} =>
        /\ pc = "menu"
        /\ ENABLED StartThresholdInteractive

(* C18: no step of the program changes a voxel of the loaded volume, its  *)
(* shape or its minimum and maximum; a segmentation is a new array.       *)
C18_VolumeImmutable ==
    [][/\ array' = array
       /\ DOMAIN array' = DOMAIN array
       /\ NpMin(array') = NpMin(array)
       /\ NpMax(array') = NpMax(array)]_vars

C18_Witness ==
    /\ pc \in {"otsu", "kmeans"}
    /\ segmented # << >>
    /\ segmented # array
    /\ handed # <<0, 0>>

(* The load of DICOM3DViewer has returned to main *)
ViewerLoadDone ==
    program = "DICOM3DSegmentacion" /\ pc \in {"menu", "ended"}

(* No file of the directory is a valid DICOM file / can be read *)
NoValidDicomFile == \A b \in 1..MaxFiles : directory[b].status \notin {"ok", "unreadable"}
EveryReadFails == \A b \in 1..MaxFiles : directory[b].status # "ok"

(* C13: if no slice can be obtained (no valid DICOM file is found, or     *)
(* every file fails to read) the load of the viewer ends with an error    *)
(* raised to its caller and no partial volume: array and image stay None. *)
C13_NoSliceNoVolume ==
    (program = "DICOM3DSegmentacion" /\ (NoValidDicomFile \/ EveryReadFails)) =>
        /\ array = None
        /\ image = None
        /\ ViewerLoadDone =>
              /\ pc = "ended"
              /\ failure = IF NoValidDicomFile THEN "no_dicom_files"
                           ELSE "no_slices"

C13_Witness ==
    /\ ViewerLoadDone
    /\ EveryReadFails
    /\ ~NoValidDicomFile
    /\ failure = "no_slices"
    /\ Len(trace) >= 1
    /\ array = None

(* The slices that were read do not all have the same 2D dimensions *)
DifferentShapes == \E j, k \in DOMAIN slices : Len(slices[j]) # Len(slices[k])

FailedReads ==
    {k \in 1..index :
        /\ directory[dicom_files[k]].status # "ok"
        /\ ~(program = "DICOM3DSegmentacion" /\ k = 1)}

(* C15, as claimed: in every loader a slice whose read fails is skipped,  *)
(* the loading goes on, and each failure leaves a trace: as many traces   *)
(* as failed reads, and the slices kept are the files gone through less   *)
(* the failures (and the study-information file of the viewer).           *)
C15_EveryFailureTraced ==
    /\ Len(trace) = Cardinality(FailedReads)
    /\ Len(slices) + Cardinality(FailedReads)
          + (IF program = "DICOM3DSegmentacion" /\ index >= 1 THEN 1 ELSE 0)
       = index

(* All files of the list handed to _load_slices_manual can be read *)
AllReadable ==
    \A k \in DOMAIN dicom_files : directory[dicom_files[k]].status = "ok"

(* C16, as claimed: when the N files of the list can be read, the volume  *)
(* has N slices and slice z holds the intensities of the z-th file.       *)
C16_RoundTrip ==
    (ViewerLoadDone /\ pc = "menu" /\ AllReadable) =>
        /\ Len(array) = Len(dicom_files)
        /\ \A z \in DOMAIN array :
              array[z] = [k \in 1..directory[dicom_files[z]].shape |->
                             dicom_files[z] * Unit]

(* C16, amended: when the N files of the list handed to                   *)
(* _load_slices_manual can be read, the volume has N - 1 slices and slice *)
(* z holds the intensities of file z + 1 of the list: the first file is   *)
(* left out as study information.                                         *)
C16_RoundTripAfterFirst ==
    (ViewerLoadDone /\ pc = "menu" /\ AllReadable) =>
        /\ Len(array) = Len(dicom_files) - 1
        /\ \A z \in DOMAIN array :
              array[z] = [k \in 1..directory[dicom_files[z + 1]].shape |->
                             dicom_files[z + 1] * Unit]

C16_Witness ==
    /\ ViewerLoadDone
    /\ pc = "menu"
    /\ AllReadable
    /\ Len(array) >= 2
    /\ array[1] # array[2]

(* C21: a drag of one slider never changes the other threshold: the       *)
(* lower callback leaves the upper slider as it was and hands its value   *)
(* on as read, the upper callback does the same with the lower slider;    *)
(* only the endpoint that was moved is clamped.                           *)
C21_OtherThresholdUntouched ==
    [][(Interactive /\ pc' = pc) =>
          /\ event'.slider = "lower" =>
                /\ upper_slider' = upper_slider
                /\ handed'[2] = upper_slider.value
                /\ handed'[1] = IF event'.raw > upper_slider.value
                                THEN upper_slider.value ELSE event'.raw
          /\ event'.slider = "upper" =>
                /\ lower_slider' = lower_slider
                /\ handed'[1] = lower_slider.value
                /\ handed'[2] = IF event'.raw < lower_slider.value
                                THEN lower_slider.value ELSE event'.raw]_vars

C21_Witness ==
    /\ pc = "multischeme"
    /\ event.slider = "lower"
    /\ event.raw > upper_slider.value
    /\ handed = <<upper_slider.value, upper_slider.value>>
    /\ upper_slider.value < upper_slider.maximum

(* C22, as claimed: in the tri-band scheme, for every pair with           *)
(* volume.min <= lower <= upper <= volume.max, no opacity point has       *)
(* opacity 0, the opacity at the data minimum is 0.1-0.2, at the points   *)
(* inside the band 0.8-0.9 and at the points above upper 0.3-0.5.  Stated *)
(* for volumes with volume.min < volume.max.                              *)
C22_TriBandOpacity ==
    (pc = "multischeme" /\ DataMin < DataMax /\ ValidPair) =>
        /\ \A i \in DOMAIN opacity_transfer :
              LET x == opacity_transfer[i][1]
                  y == opacity_transfer[i][2]
              IN  /\ y # 0
                  /\ (handed[1] < x /\ x < handed[2]) => y \in 8..9
                  /\ x > handed[2] => y \in 3..5
        /\ OpacitiesAt(DataMin) \subseteq 1..2

(* No two points of the function have the same intensity *)
NoDuplicatePoints(f) ==
    \A i, j \in DOMAIN f : i # j => f[i][1] # f[j][1]

(* No point of the function lies strictly between a and b *)
NoPointInside(f, a, b) ==
    \A i \in DOMAIN f : ~(a < f[i][1] /\ f[i][1] < b)

(* C23, as claimed: when a sub-span of the tri-band scheme is narrower    *)
(* than one intensity unit (lower - volume.min, upper - lower or          *)
(* volume.max - upper), its sub-gradient is left out: no point is emitted *)
(* inside it and no two points share an intensity.  Stated for volumes    *)
(* with volume.min < volume.max.                                          *)
C23_CollapsedSpanSkipped ==
    (pc = "multischeme" /\ DataMin < DataMax /\ ValidPair) =>
        /\ handed[1] - DataMin < Unit =>
              /\ NoPointInside(opacity_transfer, DataMin, handed[1])
              /\ NoPointInside(color_transfer, DataMin, handed[1])
        /\ handed[2] - handed[1] < Unit =>
              /\ NoPointInside(opacity_transfer, handed[1], handed[2])
              /\ NoPointInside(color_transfer, handed[1], handed[2])
        /\ DataMax - handed[2] < Unit =>
              /\ NoPointInside(opacity_transfer, handed[2], DataMax)
              /\ NoPointInside(color_transfer, handed[2], DataMax)
        /\ (\/ handed[1] - DataMin < Unit
            \/ handed[2] - handed[1] < Unit
            \/ DataMax - handed[2] < Unit) =>
              /\ NoDuplicatePoints(opacity_transfer)
              /\ NoDuplicatePoints(color_transfer)

C25_NoDuplicatePath ==
    program = "DICOM3DSegmentacion" =>
        \A j, k \in DOMAIN dicom_files :
            j # k => dicom_files[j] # dicom_files[k]

(* The known pattern of the slice held by file b *)
PatternOf(b) == [p \in 1..directory[b].shape |-> b * Unit]

(* The slices of the readable files among positions 2..n of the list *)
ReadAfterFirst(n) ==
    LET rest == SubSeq(dicom_files, 2, n)
        read == SelectSeq(rest, LAMBDA b : directory[b].status = "ok")
    IN  [k \in 1..Len(read) |-> PatternOf(read[k])]

(* C26: _load_slices_manual never takes the first entry of its list: the  *)
(* slices it collects, and the volume it stacks, are exactly the          *)
(* successfully read files after the first entry, in list order; with a   *)
(* single file in the list the load raises ValueError and array stays     *)
(* None.                                                                  *)
C26_FirstFileLeftOut ==
    (program = "DICOM3DSegmentacion" /\ pc \in {"read", "menu", "ended"}) =>
        /\ slices = ReadAfterFirst(index)
        /\ pc = "menu" => array = ReadAfterFirst(Len(dicom_files))
        /\ (pc # "read" /\ Len(dicom_files) = 1) =>
              /\ pc = "ended"
              /\ failure = "no_slices"
              /\ array = None

C26_Witness ==
    /\ ViewerLoadDone
    /\ pc = "menu"
    /\ Len(array) >= 2
    /\ array[1] # array[2]
    /\ trace # << >>
    /\ array # [k \in 1..Len(array) |-> PatternOf(dicom_files[k])]

(* C27, as claimed: every public rendering or segmentation method of the  *)
(* viewer that is called before load_dicom_series has succeeded raises    *)
(* ValueError and leaves the viewer as it was: array and image None, no   *)
(* window or slider created.                                              *)
C27_UnloadedCallRaisesValueError ==
    called # "none" =>
        /\ failure = "ValueError"
        /\ array = None
        /\ image = None
        /\ lower_slider = NewSlider
        /\ upper_slider = NewSlider
        /\ rendered = NoRender
        /\ pc = "raised"

(* The slices of the readable files among the first n of the list *)
ReadInOrder(n) ==
    LET read == SelectSeq(SubSeq(dicom_files, 1, n),
                          LAMBDA b : directory[b].status = "ok")
    IN  [k \in 1..Len(read) |-> PatternOf(read[k])]

(* C28: in visualizar_pulmones_3d, visualizar_pulmones_surface and        *)
(* visualizar_volumen_optimizado, for every number of .dcm files and      *)
(* every max_slices >= 1, at most max_slices slices are stacked, and the  *)
(* slices kept are in sorted filename order.                              *)
C28_AtMostMaxSlicesInOrder ==
    program \in {"3DRango", "3Dpulmon", "3DDICOM"} =>
        /\ Len(dicom_files) <= max_slices
        /\ \A j, k \in DOMAIN dicom_files : j < k => dicom_files[j] < dicom_files[k]
        /\ Len(slices) <= max_slices
        /\ slices = ReadInOrder(index)
        /\ pc = "shown" => array = slices

C28_Witness ==
    /\ program = "3DDICOM"
    /\ pc = "shown"
    /\ Len(array) = max_slices
    /\ Len(array) >= 2
    /\ Len(ArchivosDicom(directory, 1)) > max_slices
    /\ array[1] # array[2]

(* C29, as claimed: in visualizar_pulmones_normalizado, for every number  *)
(* of .dcm files and every max_slices >= 1, at most max_slices slices are *)
(* stacked into the volume.                                               *)
C29_NormalizadoAtMostMaxSlices ==
    program \in {"3Dslides", "3Dpulmon_torax"} =>
        /\ Len(slices) <= max_slices
        /\ pc = "shown" => Len(array) <= max_slices

(* C30: in surface_rendering_double_threshold, for every pair of supplied *)
(* or prompted thresholds and every loaded volume, the pair used for the  *)
(* iso-contours satisfies lower < upper strictly.                         *)
C30_UsedPairStrictlyOrdered ==
    pc = "surface" => contour_values[1] < contour_values[3]

====
